---- MODULE Spec2Model ----
(***************************************************************************)
(* Model of the IELTS speaking-practice client (class GdmLiveAudio, the    *)
(* variant with the Part 1/2/3 flow): the live-session message handler     *)
(* (audio output scheduler, transcript reconciler, interruption), the      *)
(* recording start/stop handlers with their suspension points, the Part 2  *)
(* state machine with its interval timers, and credit metering.            *)
(*                                                                         *)
(* Every handler runs to its next real suspension point (an awaited I/O    *)
(* operation) in one step; an await on an already settled promise resumes  *)
(* in a microtask, before any other event, and so stays in the same step.  *)
(***************************************************************************)
EXTENDS Integers, Sequences, FiniteSets, Bags, TLC

\* ----------------------------------------------------------------- bounds
MaxMsgs == 2         \* inbound audio/interruption messages per behaviour
MaxTextMsgs == 3     \* inbound transcript messages per behaviour
MaxClock == 2        \* output clock ticks explored
MaxStarts == 2       \* startRecording runs that get past their guards
MaxGens == 1         \* cue-card generation requests in flight at one time
MaxLeak == 1         \* interval timers left running without a reference, per kind
MaxUnderrun == 1     \* how far below zero a countdown is followed
MaxText == 1         \* transcript text held beyond which no fragment is delivered
MaxSaves == 2        \* stopRecording runs suspended on the insert at one time
MaxSignIns == 1      \* sign-ins
MaxTicks == 2        \* runs of the credit interval callback followed per recording
MaxFeedbackSessions == 2  \* sessions one feedback pass finds without feedback
SubSteps == 4        \* sample values are multiples of 1 / (32768 * SubSteps)
MaxOff == 5          \* sample values lie within MaxOff steps of -1, 0 and 1
MaxFrame == 2        \* samples in a frame
MaxFinalMsgs == 3    \* messages delivered to the handler that tracks finality
MaxRemoteClicks == 3  \* clicks followed in the runs with a remote close
MaxPasses == 2       \* stops that launch a run of processMissingFeedback
MaxClicks == 4       \* clicks on the part buttons, the Start button, the visualizer
                     \* and the out-of-credits dialog

NULL == "null"

VARIABLES
  \* --- live session handler state (audio scheduler, transcript reconciler)
  transcripts,       \* this.transcripts: sequence of [speaker, text]
  nextStartTime,     \* this.nextStartTime
  sources,           \* this.sources: ids of the sources in the active set
  currentTime,       \* this.outputAudioContext.currentTime
  decoding,          \* message handlers suspended on `await decodeAudioData`
  msgCount,          \* number of messages delivered so far (arrival index)
  playLog,           \* history: the source.start calls, in call order
  stopLog,           \* history: ids of the sources stopped by an interruption
  interrupts,        \* history: number of interruption events handled
  behind,            \* history: since the last source.start, a message found
                     \* nextStartTime behind the clock or an interruption reset it
  fragLog,           \* history: transcript fragments in the order the handler takes them
  sessionClosed      \* the session these handlers belong to has been closed

liveVars == <<nextStartTime, sources, currentTime, decoding,
              msgCount, playLog, stopLog, interrupts, behind, fragLog,
              sessionClosed>>

VARIABLES
  \* --- identity, client, credits
  supabaseSession,   \* this.supabaseSession: TRUE when signed in
  signIns,           \* number of sign-ins so far
  clicks,            \* number of clicks so far
  client,            \* this.client: TRUE when set
  userCredits,       \* this.userCredits: NoCredits or seconds
  serverCredits,     \* the balance the profiles table holds: NoCredits until the
                     \* first request has read it
  creditTicks,       \* history: runs of the credit interval callback while
                     \* isRecording, since recording last started
  secondsRequested,  \* history: seconds asked of deduct_credits since recording
                     \* last started
  cueCards,          \* number of cue cards generated so far
  \* --- recording
  isRecording,       \* this.isRecording
  session,           \* this.session: NoSession (null) or the system instruction
                     \* of the open session the field refers to
  orphans,           \* sessions open that this.session no longer refers to
  mediaStream,       \* this.mediaStream: TRUE when set
  liveStreams,       \* microphone streams acquired and not stopped
  scriptProcessorNode, \* this.scriptProcessorNode (and this.sourceNode): TRUE when set
  connectedNodes,    \* script processor nodes connected to the capture graph
  currentSessionId,  \* this.currentSessionId: 0 (null) or the number of the uuid drawn
  inserted,          \* the transcripts table: per session id, the inserts done
  lastFrame,         \* what the last capture callback did since recording last
                     \* started or stopRecording was last entered
  tasks,             \* bag of the awaited requests in flight: [kind, sid, cont, instr]
  \* --- Part 1/2/3 flow
  currentPart, part2State, part2CueCard, part2Topic, part2TopicForPart3,
  part2PreparationTimeLeft, part2SpeakingTimeLeft,
  part2TimerInterval, \* NULL or the kind of the interval the field refers to
  leaked,            \* intervals still running that no field refers to, per kind
  creditUsageInterval, \* TRUE when the field holds a running interval
  isOutOfCreditsModalOpen, isIntroModalOpen,
  lastFinishedTopic  \* history: part2Topic when part2State last became finished

VARIABLES
  \* --- processMissingFeedback
  feedbackPass,      \* the state of one run of processMissingFeedback
  \* --- PCM codec
  pcm,               \* one frame on its way through createBlob and decodeAudioData
  \* --- transcript with per-fragment finality
  finalTr,           \* the transcript lines with isFinal and the inserts made
  \* --- connection of the live session
  remoteClosed,      \* the remote side closed or failed the connection of this.session
  \* --- concurrent runs of processMissingFeedback
  feedbackRuns       \* the feedback table, the fields the runs share, each run's position

\* The variables of the components that are modelled on their own.
sideVars == <<feedbackPass, pcm, finalTr, remoteClosed, feedbackRuns>>

coreVars == <<supabaseSession, signIns, clicks, client, userCredits, serverCredits,
             creditTicks, secondsRequested, cueCards,
             isRecording, session, orphans, mediaStream, liveStreams,
             scriptProcessorNode, connectedNodes, currentSessionId, inserted,
             lastFrame, tasks, currentPart, part2State,
             part2CueCard, part2Topic, part2TopicForPart3,
             part2PreparationTimeLeft, part2SpeakingTimeLeft,
             part2TimerInterval, leaked, creditUsageInterval,
             isOutOfCreditsModalOpen, isIntroModalOpen, lastFinishedTopic>>

appVars == <<coreVars, sideVars>>

vars == <<transcripts, liveVars, appVars>>

Max(a, b) == IF a >= b THEN a ELSE b

\* ------------------------------------------------- transcript reconciler
Texts == {<<"a">>, <<"b">>}
NoText == <<>>

Last(s) == s[Len(s)]

\* Mutant: every fragment starts a new line (the same-speaker test is lost).
AppendFragment_NoMerge(ts, speaker, text) ==
  Append(ts, [speaker |-> speaker, text |-> text])

\* part_001:1461-1472 / 1478-1489: append to the last line when it has the
\* fragment's speaker, else start a new line.
AppendFragment(ts, speaker, text) ==
  IF Len(ts) > 0 /\ Last(ts).speaker = speaker
  THEN [ts EXCEPT ![Len(ts)].text = @ \o text]
  ELSE Append(ts, [speaker |-> speaker, text |-> text])

\* part_001:1458-1490: the input transcription first, then the output one;
\* an absent or empty text is skipped.
ApplyTranscripts(ts, m) ==
  LET t1 == IF m.input # NoText THEN AppendFragment(ts, "Candidate", m.input) ELSE ts
  IN  IF m.output # NoText THEN AppendFragment(t1, "Examiner", m.output) ELSE t1

\* The fragments of a message, in the order ApplyTranscripts takes them.
FragmentsOf(m) ==
  (IF m.input # NoText THEN <<[speaker |-> "Candidate", text |-> m.input]>> ELSE <<>>)
  \o (IF m.output # NoText THEN <<[speaker |-> "Examiner", text |-> m.output]>> ELSE <<>>)

\* ------------------------------------------------- audio output scheduler
\* audioBuffer.duration, in clock ticks: a short and a long buffer.
Durations == {1, 2}

\* part_001:1435-1438
ArrivalStart(nst, now) == Max(nst, now)

\* part_001:1453: the time handed to source.start
StartAt(nst, now) == nst

\* Mutant: nextStartTime is not advanced past the buffer just started.
AdvanceStart_NoAdvance(nst, dur) == nst

\* part_001:1454
AdvanceStart(nst, dur) == nst + dur

\* Mutant: the interruption leaves the accumulated start time in place.
InterruptReset_Keep(nst) == nst

\* part_001:1498
InterruptReset(nst) == 0

\* part_001:1494-1497: every source of the set is stopped and deleted
InterruptSources(srcs) == {}

\* A live message: audio is 0 (no inline audio) or the buffer's duration.
Messages ==
  [audio : {0} \cup Durations, input : Texts \cup {NoText},
   output : Texts \cup {NoText}, interrupted : BOOLEAN]

\* part_001:1446-1499: the part of the handler after the decode await (or the
\* whole of it for a message without audio): start the source, reconcile the
\* transcripts, handle the interruption flag.
HandlerTail(m, id, arrClock, arrEpoch, hasAudio) ==
  LET startAt == StartAt(nextStartTime, currentTime)
      nst1 == IF hasAudio THEN AdvanceStart(nextStartTime, m.audio) ELSE nextStartTime
      src1 == IF hasAudio THEN sources \cup {id} ELSE sources
      entry == [id |-> id, start |-> startAt, dur |-> m.audio, at |-> currentTime,
                arrClock |-> arrClock, arrEpoch |-> arrEpoch, epoch |-> interrupts,
                paced |-> ~behind]
  IN  /\ playLog' = IF hasAudio THEN Append(playLog, entry) ELSE playLog
      /\ transcripts' = ApplyTranscripts(transcripts, m)
      /\ fragLog' = fragLog \o FragmentsOf(m)
      /\ IF m.interrupted
         THEN /\ sources' = InterruptSources(src1)
              /\ stopLog' = stopLog \cup (src1 \ InterruptSources(src1))
              /\ nextStartTime' = InterruptReset(nst1)
              /\ interrupts' = interrupts + 1
              /\ behind' = TRUE
         ELSE /\ sources' = src1
              /\ nextStartTime' = nst1
              /\ behind' = IF hasAudio THEN FALSE ELSE behind
              /\ UNCHANGED <<stopLog, interrupts>>

\* part_001:1430-1445: a message is delivered. With inline audio the handler
\* raises nextStartTime to the clock and suspends on the decode; without, it
\* runs to its end.
OnMessage(m) ==
  /\ msgCount' = msgCount + 1
  /\ IF m.audio # 0
     THEN /\ nextStartTime' = ArrivalStart(nextStartTime, currentTime)
          /\ decoding' = decoding \cup
                {[id |-> msgCount + 1, msg |-> m, arrClock |-> currentTime,
                  arrEpoch |-> interrupts]}
          /\ behind' = (behind \/ nextStartTime < currentTime)
          /\ UNCHANGED <<transcripts, sources, playLog, stopLog, interrupts, fragLog>>
     ELSE /\ HandlerTail(m, msgCount + 1, currentTime, interrupts, FALSE)
          /\ UNCHANGED decoding
  /\ UNCHANGED <<currentTime, sessionClosed>>

\* decodeAudioData resolves: the suspended handler resumes (part_001:1446).
DecodeDone(d) ==
  /\ d \in decoding
  /\ decoding' = decoding \ {d}
  /\ HandlerTail(d.msg, d.id, d.arrClock, d.arrEpoch, TRUE)
  /\ UNCHANGED <<currentTime, msgCount, sessionClosed>>

FailedStart_Advance(nst, dur) == nst + dur

\* part_001:1440-1453: the start time after a decode that rejected; the
\* addition of the duration comes after the await and does not run.
FailedStart(nst, dur) == nst

\* decodeAudioData rejects: the handler ends with the rejection; nothing after
\* the await runs.
DecodeFail(d) ==
  /\ d \in decoding
  /\ decoding' = decoding \ {d}
  /\ nextStartTime' = FailedStart(nextStartTime, d.msg.audio)
  /\ UNCHANGED <<transcripts, sources, currentTime, msgCount,
                 playLog, stopLog, interrupts, behind, fragLog, sessionClosed>>

\* The clock at which a started source really begins: a start time in the past
\* plays at once.
ActualStart(e) == Max(e.start, e.at)

\* part_001:1449-1451: the 'ended' event of a source that played to its end.
SourceEnded(i) ==
  /\ i \in 1..Len(playLog)
  /\ playLog[i].id \in sources
  /\ currentTime >= ActualStart(playLog[i]) + playLog[i].dur
  /\ sources' = sources \ {playLog[i].id}
  /\ UNCHANGED <<transcripts, nextStartTime, currentTime, decoding, msgCount,
                 playLog, stopLog, interrupts, behind, fragLog, sessionClosed>>

\* The output clock advances.
ClockTick ==
  /\ currentTime < MaxClock
  /\ currentTime' = currentTime + 1
  /\ UNCHANGED <<transcripts, nextStartTime, sources, decoding, msgCount,
                 playLog, stopLog, interrupts, behind, fragLog, sessionClosed>>

\* =====================================================================
\* Application model: recording start/stop, Part 1/2/3 flow, credits
\* =====================================================================

\* The topics of the cue cards the model generates: the n-th card of a
\* behaviour carries the n-th topic, so two cards never share a topic.
TopicSeq == <<"t1", "t2">>
Topics == {TopicSeq[i] : i \in DOMAIN TopicSeq}
Parts == {"part1", "part2", "part3"}

\* part_001:374-389: a system instruction, reduced to the part it is for and
\* the topic the Part 3 template embeds.
PART1_INSTRUCTION == [part |-> "part1", topic |-> NULL]
PART2_INSTRUCTION == [part |-> "part2", topic |-> NULL]
PART3_INSTRUCTION_TEMPLATE(topic) == [part |-> "part3", topic |-> topic]

\* this.session = null, and the instruction of a request that carries none.
NoSession == [part |-> NULL, topic |-> NULL]

\* The fixed transcript lines the flow itself writes.
GeneratingLine == [speaker |-> "Examiner", text |-> <<"generating">>]
GenerationErrorLine == [speaker |-> "Examiner", text |-> <<"generation-error">>]
CompletePart2Line == [speaker |-> "Examiner", text |-> <<"complete-part2-first">>]

\* part_001:447: the field is initialised once and never cleared.
inputAudioContext == TRUE

\* part_001:415 creditUpdateIntervalMs / 1000 (part_001:1866)
SecondsToDeduct == 10
\* part_001:431, 1656, 1779
PrepSeconds == 60
\* part_001:432, 1657, 1793
SpeakSeconds == 120
\* The balance of a profile that still has credit, in seconds.
InitialCredits == 20

\* part_001:412: the value of this.userCredits before the profile is fetched
NoCredits == -1

\* The application state as one record, so that a handler is a function of it.
Cur ==
  [supabaseSession |-> supabaseSession, signIns |-> signIns, clicks |-> clicks,
   client |-> client,
   userCredits |-> userCredits, serverCredits |-> serverCredits,
   creditTicks |-> creditTicks, secondsRequested |-> secondsRequested,
   cueCards |-> cueCards,
   isRecording |-> isRecording, session |-> session, orphans |-> orphans,
   mediaStream |-> mediaStream, liveStreams |-> liveStreams,
   scriptProcessorNode |-> scriptProcessorNode, connectedNodes |-> connectedNodes,
   currentSessionId |-> currentSessionId, inserted |-> inserted,
   lastFrame |-> lastFrame, tasks |-> tasks,
   currentPart |-> currentPart, part2State |-> part2State,
   part2CueCard |-> part2CueCard, part2Topic |-> part2Topic,
   part2TopicForPart3 |-> part2TopicForPart3,
   part2PreparationTimeLeft |-> part2PreparationTimeLeft,
   part2SpeakingTimeLeft |-> part2SpeakingTimeLeft,
   part2TimerInterval |-> part2TimerInterval, leaked |-> leaked,
   creditUsageInterval |-> creditUsageInterval,
   isOutOfCreditsModalOpen |-> isOutOfCreditsModalOpen,
   isIntroModalOpen |-> isIntroModalOpen,
   lastFinishedTopic |-> lastFinishedTopic, transcripts |-> transcripts]

TaskCount(S, kind) ==
  LET ts == {t \in BagToSet(S.tasks) : t.kind = kind}
  IN  IF ts = {} THEN 0 ELSE BagCardinality([t \in ts |-> S.tasks[t]])

\* The part of the state space the model follows.
WithinBounds(S) ==
  /\ S.currentSessionId <= MaxStarts
  /\ \A k \in DOMAIN S.leaked : S.leaked[k] <= MaxLeak
  /\ S.part2PreparationTimeLeft >= 0 - MaxUnderrun
  /\ S.part2SpeakingTimeLeft >= 0 - MaxUnderrun
  /\ TaskCount(S, "save") <= MaxSaves
  /\ TaskCount(S, "gen") <= MaxGens
  /\ TaskCount(S, "rpc") <= 1
  /\ S.signIns <= MaxSignIns
  /\ S.clicks <= MaxClicks
  /\ S.creditTicks <= MaxTicks

\* The application's fields take the values of state S.
Apply(S) ==
  /\ WithinBounds(S)
  /\ supabaseSession' = S.supabaseSession
  /\ signIns' = S.signIns
  /\ clicks' = S.clicks
  /\ client' = S.client
  /\ userCredits' = S.userCredits
  /\ serverCredits' = S.serverCredits
  /\ creditTicks' = S.creditTicks
  /\ secondsRequested' = S.secondsRequested
  /\ cueCards' = S.cueCards
  /\ isRecording' = S.isRecording
  /\ session' = S.session
  /\ orphans' = S.orphans
  /\ mediaStream' = S.mediaStream
  /\ liveStreams' = S.liveStreams
  /\ scriptProcessorNode' = S.scriptProcessorNode
  /\ connectedNodes' = S.connectedNodes
  /\ currentSessionId' = S.currentSessionId
  /\ inserted' = S.inserted
  /\ lastFrame' = S.lastFrame
  /\ tasks' = S.tasks
  /\ currentPart' = S.currentPart
  /\ part2State' = S.part2State
  /\ part2CueCard' = S.part2CueCard
  /\ part2Topic' = S.part2Topic
  /\ part2TopicForPart3' = S.part2TopicForPart3
  /\ part2PreparationTimeLeft' = S.part2PreparationTimeLeft
  /\ part2SpeakingTimeLeft' = S.part2SpeakingTimeLeft
  /\ part2TimerInterval' = S.part2TimerInterval
  /\ leaked' = S.leaked
  /\ creditUsageInterval' = S.creditUsageInterval
  /\ isOutOfCreditsModalOpen' = S.isOutOfCreditsModalOpen
  /\ isIntroModalOpen' = S.isIntroModalOpen
  /\ lastFinishedTopic' = S.lastFinishedTopic
  /\ transcripts' = S.transcripts

\* The step that takes the application to state S. A connection that was
\* closed by the remote side stays closed for as long as this.session refers
\* to it.
Commit(S) ==
  /\ Apply(S)
  /\ remoteClosed' = (/\ remoteClosed
                      /\ S.session # NoSession
                      /\ S.session = session
                      /\ S.orphans = orphans)
  /\ UNCHANGED <<liveVars, feedbackPass, pcm, finalTr, feedbackRuns>>

Task(kind, sid, cont, instr) ==
  [kind |-> kind, sid |-> sid, cont |-> cont, instr |-> instr]
AddTask(S, t) == [S EXCEPT !.tasks = @ (+) SetToBag({t})]
DelTask(S, t) == [S EXCEPT !.tasks = @ (-) SetToBag({t})]

\* window.setInterval assigned to this.part2TimerInterval (part_001:1781, 1800):
\* an interval the field still refers to keeps running without a reference.
SetPart2Timer(S, kind) ==
  [S EXCEPT !.leaked = IF S.part2TimerInterval # NULL
                       THEN [@ EXCEPT ![S.part2TimerInterval] = @ + 1] ELSE @,
            !.part2TimerInterval = kind]

\* clearInterval(this.part2TimerInterval); this.part2TimerInterval = null
ClearPart2Timer(S) == [S EXCEPT !.part2TimerInterval = NULL]

\* part_001:1582-1585
SetCreditInterval(S) ==
  [S EXCEPT !.leaked = IF S.creditUsageInterval
                       THEN [@ EXCEPT !["credit"] = @ + 1] ELSE @,
            !.creditUsageInterval = TRUE]

\* ------------------------------------------------------------ stopRecording

\* Mutant: the carried topic is not recorded when Part 2 finishes.
CarryTopic_Skip(S) == S

\* part_001:1596-1599
CarryTopic(S) ==
  IF S.currentPart = "part2" /\ S.part2Topic # NULL
  THEN [S EXCEPT !.part2TopicForPart3 = S.part2Topic,
                 !.part2State = "finished",
                 !.lastFinishedTopic = S.part2Topic]
  ELSE S

\* part_001:1601-1609
CancelTimers(S) ==
  [S EXCEPT !.part2TimerInterval = NULL, !.creditUsageInterval = FALSE]

\* part_001:1613-1634: the rest of stopRecording after the persistence block.
\* processMissingFeedback (1613) is launched and not awaited; it writes the
\* feedback column of the store only, which is not part of the state here.
\* Closing the session the field refers to leaves no session in the field.
StopTail(S) ==
  LET S1 == [S EXCEPT !.isRecording = FALSE,
                      !.creditTicks = 0, !.secondsRequested = 0]
      S2 == [S1 EXCEPT !.session = NoSession]
      S3 == IF S2.scriptProcessorNode /\ inputAudioContext
            THEN [S2 EXCEPT !.connectedNodes = @ - 1]
            ELSE S2
      S4 == [S3 EXCEPT !.scriptProcessorNode = FALSE]
  IN  IF S4.mediaStream
      THEN [S4 EXCEPT !.liveStreams = @ - 1, !.mediaStream = FALSE]
      ELSE S4

\* part_001:1242-1248: saveCurrentSessionHistory returns before its insert
SaveSkipped(S) ==
  ~S.supabaseSession \/ S.currentSessionId = 0 \/ Len(S.transcripts) = 0

\* --------------------------------------------------------- handlePartSelect

\* Mutant: the Part 3 request without a carried topic is let through.
RejectPart3_Never(S, part) == FALSE

\* part_001:1683-1684
RejectPart3(S, part) == part = "part3" /\ S.part2TopicForPart3 = NULL

OutOfCredits_Never(S) == FALSE

\* part_001:1532, 1646: the credit gate of startRecording and handlePartSelect
OutOfCredits(S) == S.userCredits # NoCredits /\ S.userCredits <= 0

\* part_001:1646-1706: handlePartSelect after its `await stopCurrentSession()`
HandlePartSelectRest(S, part) ==
  IF OutOfCredits(S)
  THEN [S EXCEPT !.isOutOfCreditsModalOpen = TRUE]
  ELSE LET S1 == [S EXCEPT !.currentPart = part,
                           !.transcripts = <<>>,
                           !.part2CueCard = NULL,
                           !.part2Topic = NULL,
                           !.part2State = "idle",
                           !.part2PreparationTimeLeft = PrepSeconds,
                           !.part2SpeakingTimeLeft = SpeakSeconds]
       IN  IF RejectPart3(S1, part)
           THEN [S1 EXCEPT !.transcripts = <<CompletePart2Line>>]
           ELSE [S1 EXCEPT !.isIntroModalOpen = TRUE]

\* What runs when an awaited stopRecording/stopCurrentSession returns: the rest
\* of handlePartSelect (part_001:1646), of deductCredits (part_001:1883), or
\* nothing.
Continuation(S, cont) ==
  CASE cont \in Parts -> HandlePartSelectRest(S, cont)
    [] cont = "deduct" -> [S EXCEPT !.isOutOfCreditsModalOpen = TRUE]
    [] OTHER -> S

\* part_001:1592-1635. The run suspends on the insert of
\* saveCurrentSessionHistory (a "save" task) when there is something to save;
\* else it runs to its end, and so does what awaited it.
StopRecording(S, cont) ==
  IF ~S.isRecording /\ ~S.mediaStream /\ ~inputAudioContext
  THEN Continuation(S, cont)
  ELSE LET S1 == [CancelTimers(CarryTopic(S)) EXCEPT !.lastFrame = "none"]
       IN  IF Len(S1.transcripts) > 0
           THEN IF SaveSkipped(S1)
                THEN Continuation(StopTail(S1), cont)
                ELSE AddTask(S1, Task("save", S1.currentSessionId, cont, NoSession))
           ELSE Continuation(StopTail(S1), cont)

\* part_001:1637-1641
StopCurrentSession(S, cont) ==
  IF S.isRecording THEN StopRecording(S, cont) ELSE Continuation(S, cont)

\* part_001:1643-1644
HandlePartSelect(S, part) == StopCurrentSession(S, part)

\* ----------------------------------------------------------- startRecording

\* part_001:1800-1807: what startPart2SpeakingSession does once its awaited
\* startRecording has returned; other callers do nothing more.
AfterStart(S, cont) ==
  IF cont = "speak" THEN SetPart2Timer(S, "speak") ELSE S

\* part_001:1532-1547. A run past the guards draws a session id and suspends
\* on the connect (a "connect" task) when there is a client.
StartRecording(S, instr, cont) ==
  IF OutOfCredits(S)
  THEN AfterStart([S EXCEPT !.isOutOfCreditsModalOpen = TRUE], cont)
  ELSE IF S.isRecording
  THEN AfterStart(S, cont)
  ELSE LET S1 == [S EXCEPT !.transcripts = <<>>, !.currentSessionId = @ + 1]
       IN  IF S1.client
           THEN AddTask(S1, Task("connect", 0, cont, instr))
           ELSE IF S1.session = NoSession
           THEN AfterStart(S1, cont)
           ELSE AddTask(S1, Task("mic", 0, cont, NoSession))

\* part_001:1424, 1544-1552: the connect resolves; the session object replaces
\* whatever this.session held, and the run goes on to getUserMedia.
ConnectResolved(S, t) ==
  AddTask([S EXCEPT !.session = t.instr,
                    !.orphans = IF S.session # NoSession THEN @ + 1 ELSE @],
          Task("mic", 0, t.cont, NoSession))

\* part_001:1523-1547: the connect rejects; the error is logged, and the run
\* goes on only if this.session holds a session (of another run).
ConnectRejected(S, t) ==
  IF S.session = NoSession
  THEN AfterStart(S, t.cont)
  ELSE AddTask(S, Task("mic", 0, t.cont, NoSession))

\* part_001:1552-1585: getUserMedia resolves.
MicResolved(S, t) ==
  LET S1 == [S EXCEPT !.mediaStream = TRUE, !.liveStreams = @ + 1,
                      !.scriptProcessorNode = TRUE, !.connectedNodes = @ + 1,
                      !.isRecording = TRUE, !.lastFrame = "none",
                      !.creditTicks = 0, !.secondsRequested = 0]
  IN  AfterStart(SetCreditInterval(S1), t.cont)

\* part_001:1586-1589: getUserMedia rejects; stopRecording is called and not
\* awaited.
MicRejected(S, t) == AfterStart(StopRecording(S, "none"), t.cont)

\* ------------------------------------------------------------ Part 2 flow

\* part_001:1791-1798
StartPart2SpeakingSession(S) ==
  StartRecording([S EXCEPT !.part2State = "speaking",
                           !.part2SpeakingTimeLeft = SpeakSeconds],
                 PART2_INSTRUCTION, "speak")

\* part_001:1781-1788: one run of the preparation interval's callback
PrepCallback(S) ==
  LET S1 == [S EXCEPT !.part2PreparationTimeLeft = @ - 1]
  IN  IF S1.part2PreparationTimeLeft <= 0
      THEN StartPart2SpeakingSession(ClearPart2Timer(S1))
      ELSE S1

\* part_001:1800-1807: one run of the speaking interval's callback
SpeakCallback(S) ==
  LET S1 == [S EXCEPT !.part2SpeakingTimeLeft = @ - 1]
  IN  IF S1.part2SpeakingTimeLeft <= 0
      THEN StopCurrentSession(ClearPart2Timer(S1), "none")
      ELSE S1

\* part_001:1777-1789
StartPart2Preparation(S) ==
  SetPart2Timer([S EXCEPT !.part2State = "preparing",
                          !.part2PreparationTimeLeft = PrepSeconds], "prep")

\* part_001:1755-1764: the generation resolved with a cue card on `topic`
CueCardGenerated(S, topic) ==
  StartPart2Preparation([S EXCEPT !.part2Topic = topic,
                                  !.part2CueCard = topic,
                                  !.transcripts = <<>>])

CueCardFailed_Retry(S) ==
  AddTask([S EXCEPT !.transcripts = <<GenerationErrorLine>>],
          Task("gen", 0, "none", NoSession))

\* part_001:1765-1774
CueCardFailed(S) ==
  [S EXCEPT !.transcripts = <<GenerationErrorLine>>, !.part2State = "idle"]

\* Mutant: Part 3 is started with the topic of the running Part 2 state.
Part3Topic_Current(S) == S.part2Topic

\* part_001:1722-1725: the topic handed to the Part 3 instruction template
Part3Topic(S) == S.part2TopicForPart3

\* part_001:1709-1728. generateCueCard suspends on generateContent (a "gen"
\* task); without a client the call throws inside the try block.
HandleStartPart(S) ==
  LET S1 == [S EXCEPT !.isIntroModalOpen = FALSE]
  IN  CASE S1.currentPart = "part1" -> StartRecording(S1, PART1_INSTRUCTION, "none")
        [] S1.currentPart = "part2" ->
             LET S2 == [S1 EXCEPT !.part2State = "generating",
                                  !.transcripts = <<GeneratingLine>>]
             IN  IF S2.client THEN AddTask(S2, Task("gen", 0, "none", NoSession))
                 ELSE CueCardFailed(S2)
        [] S1.currentPart = "part3" ->
             IF S1.part2TopicForPart3 # NULL
             THEN StartRecording(S1, PART3_INSTRUCTION_TEMPLATE(Part3Topic(S1)), "none")
             ELSE S1
        [] OTHER -> S1

\* ---------------------------------------------------------------- credits

Unmetered_Never(S) == FALSE

\* part_001:1864: the balance is not known
Unmetered(S) == S.userCredits = NoCredits

\* part_001:1863-1870
DeductCredits(S) ==
  IF ~S.isRecording \/ Unmetered(S) THEN S
  ELSE AddTask([S EXCEPT !.secondsRequested = @ + SecondsToDeduct],
               Task("rpc", 0, "none", NoSession))

CreditsDeducted_NoStop(S) ==
  LET data == S.serverCredits - SecondsToDeduct
  IN  [S EXCEPT !.serverCredits = data, !.userCredits = data]

\* part_001:1879-1884: the rpc returned the new balance
CreditsDeducted(S) ==
  LET data == S.serverCredits - SecondsToDeduct
      S1 == [S EXCEPT !.serverCredits = data, !.userCredits = data]
  IN  IF S1.userCredits <= 0 THEN StopCurrentSession(S1, "deduct") ELSE S1

DeductionFailed_Stop(S) == StopCurrentSession(S, "none")

\* part_001:1872-1877: the rpc returned an error; it is logged
DeductionFailed(S) == S

\* ------------------------------------------------------ sign-in / sign-out

\* part_001:1193-1199, 1231-1239, 1847-1855
SignedIn(S) ==
  AddTask([S EXCEPT !.supabaseSession = TRUE, !.signIns = @ + 1, !.client = TRUE],
          Task("profile", 0, "none", NoSession))

CleanupRest_ClearsTopic(S) ==
  [S EXCEPT !.client = FALSE, !.session = NoSession, !.transcripts = <<>>,
            !.userCredits = NoCredits, !.creditUsageInterval = FALSE,
            !.part2TopicForPart3 = NULL]

\* part_001:1210-1224: cleanup after its stopRecording call
CleanupRest(S) ==
  [S EXCEPT !.client = FALSE, !.session = NoSession, !.transcripts = <<>>,
            !.userCredits = NoCredits, !.creditUsageInterval = FALSE]

\* part_001:1202-1225: the user is signed out. saveCurrentSessionHistory
\* returns before its insert (no supabaseSession), so the stopRecording that
\* cleanup calls without awaiting ends within the same turn.
Cleanup(S) ==
  CleanupRest(StopRecording([S EXCEPT !.supabaseSession = FALSE], "none"))

\* ------------------------------------------------------------------ actions

\* The page shows the app and no modal overlay covers it.
UIFree == supabaseSession /\ ~isIntroModalOpen /\ ~isOutOfCreditsModalOpen

\* The state a click is handled in: the click is counted.
Clicked == [Cur EXCEPT !.clicks = @ + 1]

\* part_001:2283-2296: a part button is clicked (disabled while another part records)
PartButton(part) ==
  /\ UIFree
  /\ ~(isRecording /\ currentPart # part)
  /\ Commit(HandlePartSelect(Clicked, part))

\* part_001:1972-1973: the Start button of the intro modal
StartButton ==
  /\ supabaseSession /\ isIntroModalOpen
  /\ Commit(HandleStartPart(Clicked))

\* part_001:1919-1929, 2275
HandleVisualizerClick ==
  /\ UIFree
  /\ Commit(IF isRecording THEN StopRecording(Clicked, "none")
            ELSE IF currentPart # NULL THEN HandlePartSelect(Clicked, currentPart)
            ELSE Clicked)

\* part_001:1914-1917, 1940 (and back to the app from the pricing page, 2087)
RedirectToPricing ==
  /\ supabaseSession /\ isOutOfCreditsModalOpen
  /\ Commit([Clicked EXCEPT !.isOutOfCreditsModalOpen = FALSE])

\* part_001:1163-1165, 1193-1199
SignIn ==
  /\ ~supabaseSession
  /\ Commit(SignedIn(Cur))

\* part_001:1163-1165, 1202-1204
SignOut ==
  /\ supabaseSession
  /\ Commit(Cleanup(Cur))

\* The balances the profiles table may hold when it is read: what a request
\* has seen or left, or, at the first read, nothing or the full balance.
ProfileBalances ==
  IF serverCredits = NoCredits THEN {0, InitialCredits} ELSE {serverCredits}

\* part_001:1850-1860: fetchUserProfile's query returns
ProfileFetched(ok, credits) ==
  /\ credits \in ProfileBalances
  /\ \E t \in BagToSet(tasks) :
       /\ t.kind = "profile"
       /\ Commit(IF ok THEN [DelTask(Cur, t) EXCEPT !.userCredits = credits,
                                                    !.serverCredits = credits]
                 ELSE DelTask(Cur, t))

\* part_001:1424: live.connect resolves with the session
ConnectResolve ==
  \E t \in BagToSet(tasks) :
    /\ t.kind = "connect"
    /\ Commit(ConnectResolved(DelTask(Cur, t), t))

\* part_001:1523-1525: live.connect rejects
ConnectReject ==
  \E t \in BagToSet(tasks) :
    /\ t.kind = "connect"
    /\ Commit(ConnectRejected(DelTask(Cur, t), t))

\* part_001:1552: getUserMedia resolves with the stream
MicResolve ==
  \E t \in BagToSet(tasks) :
    /\ t.kind = "mic"
    /\ Commit(MicResolved(DelTask(Cur, t), t))

\* part_001:1586: getUserMedia rejects
MicReject ==
  \E t \in BagToSet(tasks) :
    /\ t.kind = "mic"
    /\ Commit(MicRejected(DelTask(Cur, t), t))

SaveReturned_Throws(S, t, ok) ==
  IF ok THEN Continuation(StopTail([S EXCEPT !.inserted[t.sid] = @ + 1]), t.cont)
  ELSE S

\* part_001:1257-1269, 1613-1634: the insert of saveCurrentSessionHistory
\* returned its rows or an error, which is logged; stopRecording goes on.
SaveReturned(S, t, ok) ==
  Continuation(StopTail(IF ok THEN [S EXCEPT !.inserted[t.sid] = @ + 1] ELSE S),
               t.cont)

\* part_001:1257: the awaited insert returns
SaveReturn(ok) ==
  \E t \in BagToSet(tasks) :
    /\ t.kind = "save"
    /\ Commit(SaveReturned(DelTask(Cur, t), t, ok))

\* part_001:1734-1764: generateContent resolves with a cue card
GenResolve ==
  \E t \in BagToSet(tasks) :
    /\ t.kind = "gen"
    /\ cueCards < Len(TopicSeq)
    /\ Commit(CueCardGenerated([DelTask(Cur, t) EXCEPT !.cueCards = @ + 1],
                               TopicSeq[cueCards + 1]))

\* part_001:1765-1774: generateContent rejects or its text does not parse
GenReject ==
  \E t \in BagToSet(tasks) :
    /\ t.kind = "gen"
    /\ Commit(CueCardFailed(DelTask(Cur, t)))

\* How many runs of a countdown callback one step takes: one at a time for the
\* last runs, the uneventful runs before them in one batch.
TickBatch(left) == IF left > 2 THEN {left - 1} ELSE {1}

\* part_001:1781-1788: the preparation interval fires n times in a row
PrepTimerFire(n) ==
  /\ part2TimerInterval = "prep" \/ leaked["prep"] > 0
  /\ n >= 1 /\ (n > 1 => part2PreparationTimeLeft - n >= 1)
  /\ Commit(IF n = 1 THEN PrepCallback(Cur)
            ELSE [Cur EXCEPT !.part2PreparationTimeLeft = @ - n])

\* part_001:1800-1807: the speaking interval fires n times in a row
SpeakTimerFire(n) ==
  /\ part2TimerInterval = "speak" \/ leaked["speak"] > 0
  /\ n >= 1 /\ (n > 1 => part2SpeakingTimeLeft - n >= 1)
  /\ Commit(IF n = 1 THEN SpeakCallback(Cur)
            ELSE [Cur EXCEPT !.part2SpeakingTimeLeft = @ - n])

\* part_001:1582-1585: the credit interval fires
CreditTimerFire ==
  /\ creditUsageInterval \/ leaked["credit"] > 0
  /\ Commit(DeductCredits([Cur EXCEPT !.creditTicks =
                                      IF isRecording THEN @ + 1 ELSE @]))

\* part_001:1868-1884: the deduct_credits rpc returns
RpcReturn(ok) ==
  \E t \in BagToSet(tasks) :
    /\ t.kind = "rpc"
    /\ Commit(IF ok THEN CreditsDeducted(DelTask(Cur, t))
              ELSE DeductionFailed(DelTask(Cur, t)))

\* Transcript messages the app model delivers: one fragment, no audio.
AppMessages ==
  {m \in Messages : /\ m.audio = 0 /\ ~m.interrupted
                    /\ {m.input, m.output} = {NoText, <<"a">>}}

RECURSIVE TextSize(_)
TextSize(ts) == IF ts = <<>> THEN 0 ELSE Len(ts[1].text) + TextSize(Tail(ts))

\* part_001:1430, 1458-1490: an open session (whether or not this.session
\* still refers to it) delivers a transcript message.
SessionMessage(m) ==
  /\ (session # NoSession /\ ~remoteClosed) \/ orphans > 0
  /\ TextSize(transcripts) < MaxText
  /\ Commit([Cur EXCEPT !.transcripts = ApplyTranscripts(transcripts, m)])

OnCloseOrError_Stops(S) == StopTail(CancelTimers(S))

\* part_001:1501-1506: the onerror and onclose handlers log and return
OnCloseOrError(S) == S

\* part_001:1501-1506: the remote side closes the connection of this.session
\* or reports an error on it while recording
RemoteClose ==
  /\ isRecording /\ session # NoSession /\ ~remoteClosed
  /\ remoteClosed' = TRUE
  /\ Apply([OnCloseOrError(Cur) EXCEPT !.lastFrame = "none"])
  /\ UNCHANGED <<liveVars, feedbackPass, pcm, finalTr, feedbackRuns>>

FrameDropped_Never(S) == FALSE

\* part_001:1570: the guard of the capture callback
FrameDropped(S) == ~S.isRecording \/ S.session = NoSession

\* part_001:1569-1576: a connected script processor delivers a frame
CaptureCallback ==
  /\ connectedNodes > 0
  /\ Commit([Cur EXCEPT !.lastFrame =
               IF FrameDropped(Cur) THEN "dropped" ELSE "sent"])

\* ---------------------------------------------- processMissingFeedback

\* part_001:1312
maxRetries == 3

RECURSIVE Pow(_, _)
Pow(b, e) == IF e = 0 THEN 1 ELSE b * Pow(b, e - 1)

\* Mutant: the wait does not grow.
Delay_Constant(attempt) == 1000

\* part_001:1333: the wait after a failed attempt, in milliseconds
Delay(attempt) == Pow(2, attempt - 1) * 1000

FeedbackIds == 1..MaxFeedbackSessions

\* No pass is running.
NoPass ==
  [phase |-> "idle", sessionsToProcess |-> <<>>, withSpeech |-> {},
   sessionId |-> 0, attempt |-> 0,
   calls |-> [i \in FeedbackIds |-> 0],
   delays |-> [i \in FeedbackIds |-> <<>>],
   visited |-> {}, sessionFeedback |-> {}]

\* part_001:1272-1294: a pass starts with the first n sessions missing
\* feedback, those of `speech` having candidate speech.
ProcessMissingFeedback(n, speech) ==
  /\ feedbackPass.phase = "idle"
  /\ n >= 1 /\ speech \subseteq 1..n
  /\ feedbackPass' = [NoPass EXCEPT !.phase = "loop",
                                    !.sessionsToProcess = [i \in 1..n |-> i],
                                    !.withSpeech = speech]

\* part_001:1295-1316: the next iteration of the loop over the sessions; a
\* session without candidate speech is passed over, else attempt 1 is made.
NextSession ==
  /\ feedbackPass.phase = "loop"
  /\ IF feedbackPass.sessionsToProcess = <<>>
     THEN feedbackPass' = [feedbackPass EXCEPT !.phase = "done"]
     ELSE LET id == Head(feedbackPass.sessionsToProcess)
              P1 == [feedbackPass EXCEPT !.sessionsToProcess = Tail(@),
                                         !.sessionId = id,
                                         !.visited = @ \cup {id}]
          IN  IF id \notin feedbackPass.withSpeech
              THEN feedbackPass' = P1
              ELSE feedbackPass' = [P1 EXCEPT !.phase = "generating",
                                              !.attempt = 1,
                                              !.calls[id] = @ + 1]

\* part_001:1318-1324, 1340-1342: generateContent resolves; an empty text
\* makes the loop pass on to the next session.
FeedbackGenerated(text) ==
  /\ feedbackPass.phase = "generating"
  /\ feedbackPass' = [feedbackPass EXCEPT !.phase =
                        IF text = "" THEN "loop" ELSE "saving"]

\* part_001:1325-1337: generateContent rejects; after the last attempt the
\* loop ends, before it the wait is started.
FeedbackFailed ==
  /\ feedbackPass.phase = "generating"
  /\ IF feedbackPass.attempt = maxRetries
     THEN feedbackPass' = [feedbackPass EXCEPT !.phase = "loop"]
     ELSE feedbackPass' =
            [feedbackPass EXCEPT !.phase = "waiting",
                                 !.delays[feedbackPass.sessionId] =
                                    Append(@, Delay(feedbackPass.attempt))]

\* part_001:1335, 1314-1318: the wait is over; the next attempt is made.
DelayElapsed ==
  /\ feedbackPass.phase = "waiting"
  /\ feedbackPass.attempt < maxRetries
  /\ feedbackPass' = [feedbackPass EXCEPT !.phase = "generating",
                                          !.attempt = @ + 1,
                                          !.calls[feedbackPass.sessionId] = @ + 1]

\* part_001:1344-1370: the insert of the feedback returns its row or an error.
FeedbackSaved(ok) ==
  /\ feedbackPass.phase = "saving"
  /\ feedbackPass' = [feedbackPass EXCEPT
                        !.phase = "loop",
                        !.sessionFeedback =
                           IF ok THEN @ \cup {feedbackPass.sessionId} ELSE @]

\* ------------------------------- concurrent runs of processMissingFeedback
\* Every stop that saved a transcript launches a run and does not await it
\* (part_001:1611-1614). The n-th stop saves the session with id n and
\* launches run n.

PassIds == 1..MaxPasses

IdleRun == [phase |-> "idle", todo |-> <<>>, sessionId |-> 0]

NoRuns ==
  [history |-> {},                          \* session ids with transcript rows
   stored |-> [i \in PassIds |-> 0],        \* rows of the feedback table, per session id
   generated |-> [i \in PassIds |-> 0],     \* generateContent calls, per session id
   late |-> {},                             \* ids generated for while a row was stored
   sessionFeedback |-> {},                  \* this.sessionFeedback: its keys
   runs |-> [r \in PassIds |-> IdleRun]]

\* The ids of a set in ascending order.
RECURSIVE Ascending(_)
Ascending(ids) ==
  IF ids = {} THEN <<>>
  ELSE LET least == CHOOSE i \in ids : \A j \in ids : i <= j
       IN  <<least>> \o Ascending(ids \ {least})

\* part_001:1611-1614, 1272-1277: the stop of session r has saved its
\* transcript and launches run r, which suspends on fetchHistory.
LaunchPass(r) ==
  /\ feedbackRuns.runs[r].phase = "idle"
  /\ \A q \in 1..(r - 1) : feedbackRuns.runs[q].phase # "idle"
  /\ feedbackRuns' = [feedbackRuns EXCEPT !.history = @ \cup {r},
                                          !.runs[r].phase = "fetching"]

\* part_001:1277-1294, 1400-1413: fetchHistory returns. this.sessionFeedback
\* is replaced by the rows of the feedback table when they were read, and the
\* sessions with history and without feedback are the ones to process.
HistoryFetched(r, ok) ==
  /\ feedbackRuns.runs[r].phase = "fetching"
  /\ LET fb == IF ok THEN {i \in PassIds : feedbackRuns.stored[i] > 0}
               ELSE feedbackRuns.sessionFeedback
         todo == Ascending(feedbackRuns.history \ fb)
     IN  feedbackRuns' =
           [feedbackRuns EXCEPT !.sessionFeedback = fb,
                                !.runs[r].todo = todo,
                                !.runs[r].phase =
                                   IF todo = <<>> THEN "done" ELSE "loop"]

\* part_001:1295-1322: the next iteration of the loop; generateContent is
\* called for the session and awaited.
GenerateNext(r) ==
  /\ feedbackRuns.runs[r].phase = "loop"
  /\ LET run == feedbackRuns.runs[r]
     IN  IF run.todo = <<>>
         THEN feedbackRuns' = [feedbackRuns EXCEPT !.runs[r].phase = "done"]
         ELSE LET id == Head(run.todo)
              IN  feedbackRuns' =
                    [feedbackRuns EXCEPT
                       !.runs[r] = [phase |-> "generating", todo |-> Tail(run.todo),
                                    sessionId |-> id],
                       !.generated[id] = @ + 1,
                       !.late = IF feedbackRuns.stored[id] > 0
                                THEN @ \cup {id} ELSE @]

\* part_001:1323-1346: generateContent returned a text and the insert is
\* issued and awaited, or every attempt failed and the loop goes on.
GenerationEnded(r, ok) ==
  /\ feedbackRuns.runs[r].phase = "generating"
  /\ feedbackRuns' = [feedbackRuns EXCEPT !.runs[r].phase =
                                            IF ok THEN "saving" ELSE "loop"]

\* part_001:1345-1364: the insert returns its row or an error
FeedbackInserted(r, ok) ==
  /\ feedbackRuns.runs[r].phase = "saving"
  /\ LET id == feedbackRuns.runs[r].sessionId
     IN  feedbackRuns' =
           [feedbackRuns EXCEPT
              !.stored[id] = IF ok THEN @ + 1 ELSE @,
              !.sessionFeedback = IF ok THEN @ \cup {id} ELSE @,
              !.runs[r].phase = "loop"]

\* ------------------------------------------------------------ PCM codec
\* A sample value x in [-1, 1] is held as the integer x * Int16Scale * SubSteps.

Int16Scale == 32768

Abs(n) == IF n < 0 THEN 0 - n ELSE n

\* The conversion of a number num / SubSteps to an integer: the fraction is
\* dropped.
Truncate(num) == IF num < 0 THEN 0 - ((0 - num) \div SubSteps) ELSE num \div SubSteps

ToInt16_Wrap(v) == ((v + Int16Scale) % (2 * Int16Scale)) - Int16Scale

\* The conversion range of a 16-bit signed integer.
ToInt16(v) ==
  IF v > Int16Scale - 1 THEN Int16Scale - 1
  ELSE IF v < 0 - Int16Scale THEN 0 - Int16Scale ELSE v

\* createBlob: each sample times 32768, converted to a 16-bit signed integer.
EncodeSample(x) == ToInt16(Truncate(x))

\* decodeAudioData: each 16-bit sample divided by 32768.
DecodeSample(v) == v * SubSteps

SampleValues ==
  LET one == Int16Scale * SubSteps
  IN  {0 - one + k : k \in 0..MaxOff} \cup {k - MaxOff : k \in 0..(2 * MaxOff)}
      \cup {one - k : k \in 0..MaxOff}

Frames == UNION {[1..n -> SampleValues] : n \in 1..MaxFrame}

NoFrame == [phase |-> "none", samples |-> <<>>, int16 |-> <<>>, decoded |-> <<>>]

\* part_001:1572-1575: the frame of a capture callback is encoded
CreateBlob ==
  /\ pcm.phase = "captured"
  /\ pcm' = [pcm EXCEPT !.phase = "encoded",
                        !.int16 = [i \in DOMAIN pcm.samples |->
                                     EncodeSample(pcm.samples[i])]]
  /\ UNCHANGED <<transcripts, liveVars, coreVars, feedbackPass, finalTr, remoteClosed, feedbackRuns>>

\* part_001:1440-1445: an encoded frame is decoded into an audio buffer
DecodeAudioData ==
  /\ pcm.phase = "encoded"
  /\ pcm' = [pcm EXCEPT !.phase = "decoded",
                        !.decoded = [i \in DOMAIN pcm.int16 |->
                                       DecodeSample(pcm.int16[i])]]
  /\ UNCHANGED <<transcripts, liveVars, coreVars, feedbackPass, finalTr, remoteClosed, feedbackRuns>>

\* --------------------------------------- transcript with per-fragment finality
\* The onmessage handler of the variants that keep isFinal on every line:
\* src/index.tsx:1287-1345, which saves a line when it becomes final, and
\* part_001:179-225, which saves nothing.

NoFragment == [text |-> <<>>, final |-> FALSE]

\* A fragment carries text or is absent, and may carry the status FINAL.
FinalFragments ==
  {NoFragment} \cup {[text |-> <<"a">>, final |-> f] : f \in BOOLEAN}

FinalMessages ==
  {[input |-> i, output |-> o] : i, o \in FinalFragments} \
    {[input |-> NoFragment, output |-> NoFragment]}

NoFinalTr ==
  [variant |-> "index.tsx", canSave |-> TRUE, lines |-> <<>>, inserts |-> <<>>,
   msgs |-> 0]

AppendsToLast_IgnoreFinal(lines, speaker) ==
  Len(lines) > 0 /\ lines[Len(lines)].speaker = speaker

\* src/index.tsx:1294-1297, 1324-1327; part_001:184-187, 208-211
AppendsToLast(lines, speaker) ==
  /\ Len(lines) > 0
  /\ lines[Len(lines)].speaker = speaker
  /\ ~lines[Len(lines)].isFinal

\* src/index.tsx:1194-1218: saveTranscript returns before its insert when
\* nobody is signed in or there is no session id; else one insert is made.
SaveTranscript(T, line, ok) ==
  IF T.variant = "index.tsx" /\ T.canSave
  THEN [T EXCEPT !.inserts = Append(@, [line |-> line,
                                        speaker |-> T.lines[line].speaker,
                                        text |-> T.lines[line].text,
                                        ok |-> ok])]
  ELSE T

\* src/index.tsx:1291-1315, 1321-1345; part_001:181-201, 205-225: one
\* fragment with text is merged into the transcript.
MergeFragment(T, speaker, frag, ok) ==
  IF frag.text = <<>> THEN T
  ELSE LET n == Len(T.lines)
           T1 == IF AppendsToLast(T.lines, speaker)
                 THEN [T EXCEPT !.lines[n].text = @ \o frag.text,
                                !.lines[n].isFinal = frag.final]
                 ELSE [T EXCEPT !.lines = Append(@, [speaker |-> speaker,
                                                     text |-> frag.text,
                                                     isFinal |-> frag.final])]
       IN  IF frag.final THEN SaveTranscript(T1, Len(T1.lines), ok) ELSE T1

\* src/index.tsx:1287-1345: one message, its input fragment first
OnFinalityMessage(m, ok) ==
  /\ finalTr.msgs < MaxFinalMsgs
  /\ finalTr' = [MergeFragment(MergeFragment(finalTr, "Candidate", m.input, ok),
                               "Examiner", m.output, ok)
                  EXCEPT !.msgs = @ + 1]
  /\ UNCHANGED <<transcripts, liveVars, coreVars, feedbackPass, pcm, remoteClosed, feedbackRuns>>

CoreInit ==
  /\ supabaseSession = FALSE
  /\ signIns = 0
  /\ clicks = 0
  /\ client = FALSE
  /\ userCredits = NoCredits
  /\ serverCredits = NoCredits
  /\ creditTicks = 0
  /\ secondsRequested = 0
  /\ cueCards = 0
  /\ isRecording = FALSE
  /\ session = NoSession
  /\ orphans = 0
  /\ mediaStream = FALSE
  /\ liveStreams = 0
  /\ scriptProcessorNode = FALSE
  /\ connectedNodes = 0
  /\ currentSessionId = 0
  /\ inserted = [k \in 1..MaxStarts |-> 0]
  /\ lastFrame = "none"
  /\ tasks = EmptyBag
  /\ currentPart = NULL
  /\ part2State = "idle"
  /\ part2CueCard = NULL
  /\ part2Topic = NULL
  /\ part2TopicForPart3 = NULL
  /\ part2PreparationTimeLeft = PrepSeconds
  /\ part2SpeakingTimeLeft = SpeakSeconds
  /\ part2TimerInterval = NULL
  /\ leaked = [k \in {"prep", "speak", "credit"} |-> 0]
  /\ creditUsageInterval = FALSE
  /\ isOutOfCreditsModalOpen = FALSE
  /\ isIntroModalOpen = FALSE
  /\ lastFinishedTopic = NULL

\* No feedback pass is running and no frame is in the codec.
SideInit ==
  /\ feedbackPass = NoPass
  /\ pcm = NoFrame
  /\ finalTr = NoFinalTr
  /\ remoteClosed = FALSE
  /\ feedbackRuns = NoRuns

AppInit == CoreInit /\ SideInit

SchedulerInit ==
  /\ transcripts = <<>>
  /\ nextStartTime = 0
  /\ sources = {}
  /\ currentTime = 0
  /\ decoding = {}
  /\ msgCount = 0
  /\ playLog = <<>>
  /\ stopLog = {}
  /\ interrupts = 0
  /\ behind = FALSE
  /\ fragLog = <<>>
  /\ sessionClosed = FALSE

Init == SchedulerInit /\ AppInit

Next ==
  \/ \E part \in Parts : PartButton(part)
  \/ StartButton
  \/ HandleVisualizerClick
  \/ RedirectToPricing
  \/ SignIn
  \/ SignOut
  \/ \E ok \in BOOLEAN, credits \in ProfileBalances : ProfileFetched(ok, credits)
  \/ ConnectResolve
  \/ ConnectReject
  \/ MicResolve
  \/ MicReject
  \/ \E ok \in BOOLEAN : SaveReturn(ok)
  \/ GenResolve
  \/ GenReject
  \/ \E n \in TickBatch(part2PreparationTimeLeft) : PrepTimerFire(n)
  \/ \E n \in TickBatch(part2SpeakingTimeLeft) : SpeakTimerFire(n)
  \/ CreditTimerFire
  \/ \E ok \in BOOLEAN : RpcReturn(ok)
  \/ \E m \in AppMessages : SessionMessage(m)
  \/ CaptureCallback

\* The application under every interleaving of user actions, timers and
\* completions of the awaited requests.
Spec == Init /\ [][Next]_vars

\* The application with a remote side that may close the connection of the
\* live session, or report an error on it, at any time during a recording.
RemoteNext ==
  \/ (\E part \in Parts : PartButton(part)) /\ clicks' <= MaxRemoteClicks
  \/ StartButton /\ clicks' <= MaxRemoteClicks
  \/ HandleVisualizerClick /\ clicks' <= MaxRemoteClicks
  \/ RedirectToPricing /\ clicks' <= MaxRemoteClicks
  \/ SignIn
  \/ SignOut
  \/ \E ok \in BOOLEAN, credits \in ProfileBalances : ProfileFetched(ok, credits)
  \/ ConnectResolve
  \/ ConnectReject
  \/ MicResolve
  \/ MicReject
  \/ \E ok \in BOOLEAN : SaveReturn(ok)
  \/ GenResolve
  \/ GenReject
  \/ \E n \in TickBatch(part2PreparationTimeLeft) : PrepTimerFire(n)
  \/ \E n \in TickBatch(part2SpeakingTimeLeft) : SpeakTimerFire(n)
  \/ CreditTimerFire
  \/ \E ok \in BOOLEAN : RpcReturn(ok)
  \/ \E m \in AppMessages : SessionMessage(m)
  \/ CaptureCallback
  \/ RemoteClose

SpecRemote == Init /\ [][RemoteNext]_vars

\* A session is open and delivers messages; the app is otherwise at rest.
LiveInit == SchedulerInit /\ AppInit

\* Messages of the audio path: inline audio and/or the interruption flag.
AudioMessages == {m \in Messages : m.input = NoText /\ m.output = NoText}

\* Messages of the transcript path: transcript fragments, with or without
\* inline audio (audio makes the handler suspend before it takes the fragments).
TextMessages == {m \in Messages : m.audio \in {0, 1} /\ ~m.interrupted}

LiveNext ==
  \/ \E m \in AudioMessages : msgCount < MaxMsgs /\ OnMessage(m) /\ UNCHANGED appVars
  \/ \E d \in decoding : DecodeDone(d) /\ UNCHANGED appVars
  \/ \E d \in decoding : DecodeFail(d) /\ UNCHANGED appVars
  \/ \E i \in 1..Len(playLog) : SourceEnded(i) /\ UNCHANGED appVars
  \/ ClockTick /\ UNCHANGED appVars

\* The audio output scheduler under every interleaving of message deliveries,
\* decode completions, source ends and clock ticks.
SpecLive == LiveInit /\ [][LiveNext]_vars

TranscriptNext ==
  \/ \E m \in TextMessages : msgCount < MaxTextMsgs /\ OnMessage(m) /\ UNCHANGED appVars
  \/ \E d \in decoding : DecodeDone(d) /\ UNCHANGED appVars

\* The transcript reconciler under every sequence of transcript messages.
SpecTranscript == LiveInit /\ [][TranscriptNext]_vars

SourcesAtStop_Cleared(srcs) == {}

\* part_001:1592-1635: stopRecording has no statement on this.sources
SourcesAtStop(srcs) == srcs

\* part_001:1618-1621: stopRecording closes the session. Handlers suspended
\* on a decode, the sources and nextStartTime are not touched.
SessionClose ==
  /\ ~sessionClosed
  /\ sessionClosed' = TRUE
  /\ sources' = SourcesAtStop(sources)
  /\ UNCHANGED <<transcripts, nextStartTime, currentTime, decoding,
                 msgCount, playLog, stopLog, interrupts, behind, fragLog>>

\* Messages with inline audio, with or without a transcript fragment of the
\* candidate.
ClosingMessages ==
  {m \in Messages : m.audio = 1 /\ m.output = NoText /\ m.input # <<"b">>}

CloseNext ==
  \/ \E m \in ClosingMessages :
       msgCount < MaxMsgs /\ ~sessionClosed /\ OnMessage(m) /\ UNCHANGED appVars
  \/ \E d \in decoding : DecodeDone(d) /\ UNCHANGED appVars
  \/ \E d \in decoding : DecodeFail(d) /\ UNCHANGED appVars
  \/ \E i \in 1..Len(playLog) : SourceEnded(i) /\ UNCHANGED appVars
  \/ ClockTick /\ UNCHANGED appVars
  \/ SessionClose /\ UNCHANGED appVars

\* One live session that is closed at some point: messages are delivered
\* until the close; the handlers that were suspended on a decode when the
\* session was closed resume after it.
SpecClose == LiveInit /\ [][CloseNext]_vars

FeedbackNext ==
  /\ \/ \E n \in FeedbackIds, speech \in SUBSET FeedbackIds :
          ProcessMissingFeedback(n, speech)
     \/ NextSession
     \/ \E text \in {"", "f"} : FeedbackGenerated(text)
     \/ FeedbackFailed
     \/ DelayElapsed
     \/ \E ok \in BOOLEAN : FeedbackSaved(ok)
  /\ UNCHANGED <<transcripts, liveVars, coreVars, pcm, finalTr, remoteClosed, feedbackRuns>>

\* One pass of processMissingFeedback under every outcome of its requests.
SpecFeedback == LiveInit /\ [][FeedbackNext]_vars

\* A captured frame of every choice of sample values.
PcmInit ==
  /\ SchedulerInit /\ CoreInit
  /\ feedbackPass = NoPass
  /\ finalTr = NoFinalTr
  /\ remoteClosed = FALSE
  /\ feedbackRuns = NoRuns
  /\ pcm \in {[NoFrame EXCEPT !.phase = "captured", !.samples = f] : f \in Frames}

PcmNext == CreateBlob \/ DecodeAudioData

\* The codec applied to every frame: encode, then decode.
SpecPcm == PcmInit /\ [][PcmNext]_vars

PassesNext ==
  /\ \/ \E r \in PassIds : LaunchPass(r)
     \/ \E r \in PassIds, ok \in BOOLEAN : HistoryFetched(r, ok)
     \/ \E r \in PassIds : GenerateNext(r)
     \/ \E r \in PassIds, ok \in BOOLEAN : GenerationEnded(r, ok)
     \/ \E r \in PassIds, ok \in BOOLEAN : FeedbackInserted(r, ok)
  /\ UNCHANGED <<transcripts, liveVars, coreVars, feedbackPass, pcm, finalTr,
                 remoteClosed>>

\* The runs of processMissingFeedback that successive stops launch, under
\* every interleaving of their awaited requests.
SpecPasses == LiveInit /\ [][PassesNext]_vars

\* An empty transcript in either variant of the handler, signed in or not.
FinalityInit ==
  /\ SchedulerInit /\ CoreInit
  /\ feedbackPass = NoPass
  /\ pcm = NoFrame
  /\ remoteClosed = FALSE
  /\ feedbackRuns = NoRuns
  /\ finalTr \in {[NoFinalTr EXCEPT !.variant = v, !.canSave = c] :
                     v \in {"index.tsx", "part_001"}, c \in BOOLEAN}

FinalityNext == \E m \in FinalMessages, ok \in BOOLEAN : OnFinalityMessage(m, ok)

\* The finality-tracking handler under every sequence of messages.
SpecFinality == FinalityInit /\ [][FinalityNext]_vars

\* =====================================================================
\* Claims about start/stop and the Part 1/2/3 flow (under Spec)
\* =====================================================================

\* The stopRecording runs suspended on the insert of saveCurrentSessionHistory.
SavesPending == {t \in BagToSet(tasks) : t.kind = "save"}

\* C1 (as claimed): stopping is idempotent, each cleanup step runs once per
\* recording; in particular the transcript of a session id is inserted into
\* the store at most once, however the stops of that recording interleave.
C1_StopOnce == \A k \in DOMAIN inserted : inserted[k] <= 1

\* C2 (as claimed): stopRecording marks not-recording first, so no capture
\* callback that runs after stopRecording was invoked forwards a frame; while
\* a stopRecording run is suspended on the persistence write, the last capture
\* callback since that run was entered has not sent a frame.
C2_NoFrameAfterStop == SavesPending # {} => lastFrame # "sent"

\* C3 (as claimed): at most one live session is open; no session is open that
\* this.session has stopped referring to (overwritten without being closed).
C3_OneSession == orphans = 0

\* A step that carries handlePartSelect('part3') to its end with no carried
\* topic and the credit gate passed: the Part 3 button, or the visualizer
\* click that re-selects the current part.
Part3Refused ==
  /\ part2TopicForPart3 = NULL
  /\ ~(userCredits # NoCredits /\ userCredits <= 0)
  /\ ~isRecording
  /\ \/ PartButton("part3")
     \/ currentPart = "part3" /\ HandleVisualizerClick

\* C4 (as claimed): selecting Part 3 with no carried topic leaves currentPart,
\* part2State, part2Topic, part2CueCard and both countdown values as they were.
C4_Part3RejectedUnchanged ==
  [][Part3Refused =>
       UNCHANGED <<currentPart, part2State, part2Topic, part2CueCard,
                   part2PreparationTimeLeft, part2SpeakingTimeLeft>>]_vars

\* C4 (amended): selecting Part 3 with no carried topic is rejected - the intro
\* modal is not opened, no session is requested, the carried topic stays null
\* and the transcript becomes the one line asking to complete Part 2 - but the
\* conversation state is reset for Part 3: currentPart becomes part3, part2State
\* idle, part2Topic and part2CueCard null, the countdowns 60 and 120.
C4_Part3Rejected ==
  [][Part3Refused =>
       /\ ~isIntroModalOpen'
       /\ tasks' = tasks
       /\ part2TopicForPart3' = NULL
       /\ transcripts' = <<CompletePart2Line>>
       /\ currentPart' = "part3"
       /\ part2State' = "idle"
       /\ part2Topic' = NULL /\ part2CueCard' = NULL
       /\ part2PreparationTimeLeft' = PrepSeconds
       /\ part2SpeakingTimeLeft' = SpeakSeconds]_vars

\* Part 3 was refused while the Part 2 preparation countdown was under way:
\* the refusal line is shown, the part is part3, and the preparation interval
\* still runs although part2State is idle again.
C4_Witness ==
  /\ currentPart = "part3"
  /\ transcripts = <<CompletePart2Line>>
  /\ part2TopicForPart3 = NULL
  /\ ~isIntroModalOpen
  /\ part2State = "idle"
  /\ part2TimerInterval = "prep"

\* The connect requests of a step that were not in flight before it.
NewConnects ==
  {t \in BagToSet(tasks') :
     t.kind = "connect" /\ CopiesIn(t, tasks') > CopiesIn(t, tasks)}

\* C5: once a Part 2 has finished, (a) selecting Part 3 when nothing is being
\* recorded and the credit gate passes opens the Part 3 intro; (b) confirming
\* the start then, when startRecording's guards pass, requests a live session
\* whose system instruction is the Part 3 template filled with the topic of the
\* most recently finished Part 2; (c) no session for Part 3 is ever requested
\* or open with any other topic than one a finished Part 2 carried.
C5_Part3Topic ==
  /\ [][(/\ lastFinishedTopic # NULL
         /\ ~isRecording
         /\ ~(userCredits # NoCredits /\ userCredits <= 0)
         /\ PartButton("part3"))
        => (isIntroModalOpen' /\ currentPart' = "part3")]_vars
  /\ [][(/\ lastFinishedTopic # NULL
         /\ currentPart = "part3"
         /\ ~isRecording
         /\ ~(userCredits # NoCredits /\ userCredits <= 0)
         /\ StartButton)
        => NewConnects = {Task("connect", 0, "none",
                               PART3_INSTRUCTION_TEMPLATE(lastFinishedTopic))}]_vars
  /\ [][\A t \in NewConnects :
          t.instr.part = "part3" =>
            t.instr.topic = lastFinishedTopic /\ lastFinishedTopic \in Topics]_vars

\* Part 3 is being recorded on a session whose instruction carries the topic of
\* the finished Part 2.
C5_Witness ==
  /\ isRecording
  /\ currentPart = "part3"
  /\ lastFinishedTopic \in Topics
  /\ session = PART3_INSTRUCTION_TEMPLATE(lastFinishedTopic)


\* ------------------------------------------------------------- claims C6-C10

RECURSIVE ConcatTexts(_, _, _)
\* The texts of fragments i..j of fs, concatenated in order.
ConcatTexts(fs, i, j) ==
  IF i > j THEN <<>> ELSE fs[i].text \o ConcatTexts(fs, i + 1, j)

\* The indices at which a run of same-speaker fragments begins.
RunStarts(fs) ==
  {i \in 1..Len(fs) : i = 1 \/ fs[i].speaker # fs[i - 1].speaker}

\* The last index of the run that begins at i.
RunEnd(fs, i) ==
  CHOOSE j \in i..Len(fs) :
    /\ \A k \in i..j : fs[k].speaker = fs[i].speaker
    /\ (j = Len(fs) \/ fs[j + 1].speaker # fs[i].speaker)

\* The k-th smallest element of a set of numbers.
KthOf(S, k) == CHOOSE x \in S : Cardinality({y \in S : y < x}) = k - 1

C7_BackToBack ==
  \A i \in 2..Len(playLog) :
    playLog[i].paced =>
      playLog[i].start = playLog[i - 1].start + playLog[i - 1].dur

\* Two buffers chained back to back, the second one arriving while the first
\* is still ahead of the clock.
C7_Witness ==
  /\ Len(playLog) >= 2
  /\ playLog[2].paced
  /\ playLog[1].dur = 2
  /\ playLog[2].arrClock = 1
  /\ playLog[2].start = 2

\* C8 (as claimed): no buffer that arrived before an interruption is started
\* after it.
C8_NoStartAfterInterruption ==
  \A i \in 1..Len(playLog) : playLog[i].arrEpoch = playLog[i].epoch

\* The first source.start after an interruption, seen as a step.
FirstStartAfterInterrupt ==
  /\ Len(playLog') = Len(playLog) + 1
  /\ interrupts >= 1
  /\ (Len(playLog) = 0 \/ Last(playLog).epoch < interrupts)

\* C9: handling an interruption stops every source of the active set, leaves
\* the set empty and sets nextStartTime to 0; and the first buffer started
\* after an interruption is started no later than the clock of that moment
\* (and, when it arrived after the interruption, no earlier than the clock at
\* its arrival), not at an offset accumulated before the interruption.
C9_InterruptionResets ==
  [][ /\ (interrupts' > interrupts =>
            /\ sources' = {}
            /\ nextStartTime' = 0
            /\ sources \subseteq stopLog')
      /\ (FirstStartAfterInterrupt =>
            /\ Last(playLog').start <= currentTime
            /\ (Last(playLog').arrEpoch = interrupts =>
                  Last(playLog').start >= Last(playLog').arrClock))
    ]_vars

\* After a buffer accumulated a future offset and was stopped by an
\* interruption, a buffer that arrived later has been started at the clock.
C9_Witness ==
  /\ Len(playLog) >= 2
  /\ playLog[1].id \in stopLog
  /\ playLog[1].start + playLog[1].dur > playLog[2].at
  /\ playLog[2].arrEpoch = 1 /\ playLog[2].epoch = 1
  /\ playLog[2].start = playLog[2].at
  /\ playLog[2].at > 0

\* C10 (as claimed): of two audio messages of one uninterrupted stretch, the
\* one received first is not started later than the other.
C10_ArrivalOrder ==
  \A i, j \in 1..Len(playLog) :
    (/\ playLog[i].id < playLog[j].id
     /\ playLog[i].epoch = playLog[j].epoch
     /\ playLog[i].arrEpoch = playLog[j].arrEpoch
     /\ playLog[i].arrEpoch = playLog[i].epoch)
    => playLog[i].start <= playLog[j].start

\* =====================================================================
\* Credits, the Part 2 countdowns and failures
\* =====================================================================

\* The requests of one kind that a step issues.
NewRequests(kind) ==
  {t \in BagToSet(tasks') :
     t.kind = kind /\ CopiesIn(t, tasks') > CopiesIn(t, tasks)}

\* The local balance is known and is zero or below.
Exhausted == userCredits # NoCredits /\ userCredits <= 0

\* A step that calls startRecording: the Start button for Part 1 or for a
\* Part 3 with a carried topic, or the preparation callback that reaches zero.
CallsStartRecording ==
  \/ /\ StartButton
     /\ \/ currentPart = "part1"
        \/ currentPart = "part3" /\ part2TopicForPart3 # NULL
  \/ part2PreparationTimeLeft <= 1 /\ PrepTimerFire(1)

\* C11: credit gating. A startRecording call made while the known balance is
\* zero or below requests no session and no microphone, leaves isRecording,
\* this.session, the media stream and the session id as they were, and opens
\* the out-of-credits modal; a part selection that reaches handlePartSelect's
\* gate with such a balance opens the out-of-credits modal and not the intro.
C11_CreditGate ==
  /\ [][Exhausted /\ CallsStartRecording =>
          /\ NewRequests("connect") = {} /\ NewRequests("mic") = {}
          /\ UNCHANGED <<isRecording, session, mediaStream, currentSessionId,
                         creditUsageInterval>>
          /\ isOutOfCreditsModalOpen']_vars
  /\ [][(Exhausted /\ ~isRecording /\ \E part \in Parts : PartButton(part)) =>
          /\ isOutOfCreditsModalOpen' /\ ~isIntroModalOpen'
          /\ UNCHANGED <<tasks, isRecording, session, mediaStream, currentPart>>]_vars

\* A user whose balance was zero pressed Start for Part 1: the out-of-credits
\* modal is open and no session id was ever drawn.
C11_Witness ==
  /\ isOutOfCreditsModalOpen /\ ~isIntroModalOpen
  /\ userCredits = 0
  /\ currentPart = "part1"
  /\ currentSessionId = 0 /\ ~isRecording /\ session = NoSession

\* C12 (as claimed): credit polling. During one recording, after creditTicks
\* runs of the ten-second interval callback, the seconds requested from
\* deduct_credits add up to creditTicks times SecondsToDeduct (requests are
\* counted when issued, so a failing call does not change the sum).
C12_PollingTotal == secondsRequested = SecondsToDeduct * creditTicks

\* C13: when the deduct_credits rpc returns an error, the step that handles it
\* leaves the local balance, isRecording, this.session, the media stream, the
\* credit interval, the part timer, the Part 2 state and the out-of-credits
\* modal as they were: recording continues.
C13_FailedDeduction ==
  [][RpcReturn(FALSE) =>
       UNCHANGED <<userCredits, isRecording, session, mediaStream,
                   creditUsageInterval, part2TimerInterval, part2State,
                   isOutOfCreditsModalOpen, transcripts>>]_vars

\* A recording whose one deduction request has failed: ten seconds were
\* requested, no request is in flight, the balance is the initial one and the
\* recording and its credit interval go on.
C13_Witness ==
  /\ isRecording /\ creditUsageInterval /\ session # NoSession
  /\ secondsRequested = SecondsToDeduct
  /\ TaskCount(Cur, "rpc") = 0
  /\ userCredits = InitialCredits /\ serverCredits = InitialCredits

\* The awaited requests of one kind and continuation that a step completes.
Completed(kind, cont) ==
  {t \in BagToSet(tasks) :
     t.kind = kind /\ t.cont = cont /\ CopiesIn(t, tasks') < CopiesIn(t, tasks)}

\* A step in which the stop that deductCredits awaits comes to its end: the
\* rpc returns a balance of zero or below while isRecording and the stop does
\* not suspend, or the persistence write that such a stop awaited returns.
ForcedStopEnds ==
  \/ /\ RpcReturn(TRUE)
     /\ isRecording /\ serverCredits - SecondsToDeduct <= 0
     /\ NewRequests("save") = {}
  \/ Completed("save", "deduct") # {} /\ \E ok \in BOOLEAN : SaveReturn(ok)

\* A step in which deductCredits receives a balance of zero or below while
\* isRecording.
ForcedStopBegins ==
  RpcReturn(TRUE) /\ isRecording /\ serverCredits - SecondsToDeduct <= 0

\* C14: when a deduction returns a balance of zero or below while recording,
\* the session is force-stopped. The step that receives the balance cancels
\* the part timer and the credit interval, and either ends the stop or leaves
\* it suspended on its persistence write; the step that ends the stop leaves
\* isRecording false and this.session closed and null, and opens the
\* out-of-credits modal.
C14_ForcedStop ==
  /\ [][ForcedStopBegins =>
          /\ userCredits' <= 0
          /\ part2TimerInterval' = NULL /\ ~creditUsageInterval'
          /\ \/ \E t \in NewRequests("save") : t.cont = "deduct"
             \/ ~isRecording' /\ session' = NoSession /\ isOutOfCreditsModalOpen']_vars
  /\ [][ForcedStopEnds =>
          /\ ~isRecording' /\ session' = NoSession /\ ~mediaStream'
          /\ isOutOfCreditsModalOpen']_vars

\* Part 1 was started and nothing else was clicked; its transcript has been
\* stored, the balance is used up, nothing is recording, no session and no
\* credit interval are left, and the out-of-credits modal is open.
C14_Witness ==
  /\ clicks = 2 /\ currentPart = "part1" /\ currentSessionId = 1
  /\ inserted[1] = 1
  /\ userCredits = 0 /\ serverCredits = 0
  /\ ~isRecording /\ session = NoSession /\ ~creditUsageInterval
  /\ isOutOfCreditsModalOpen

\* C15 (as claimed): a cue card that was generated puts Part 2 in preparing
\* with 60 seconds left and the preparation interval set; every run of the
\* interval callback takes exactly one second off; the run that reaches zero
\* moves Part 2 to speaking; and that happens once - no callback runs after
\* the countdown has reached zero, so it never goes below zero.
C15_Preparation ==
  /\ [][GenResolve =>
          /\ part2State' = "preparing"
          /\ part2PreparationTimeLeft' = PrepSeconds
          /\ part2TimerInterval' = "prep"]_vars
  /\ [][\A n \in 1..PrepSeconds :
          PrepTimerFire(n) =>
            /\ part2PreparationTimeLeft' = part2PreparationTimeLeft - n
            /\ part2PreparationTimeLeft' <= 0 => part2State' = "speaking"]_vars
  /\ [](part2PreparationTimeLeft >= 0)

\* C16 (as claimed): for a signed-in user, Part 2 never remains in speaking
\* after the speaking countdown has reached zero, whether or not the live
\* session was started: the callback run that reaches zero moves part2State to
\* finished.
C16_SpeakingEnds ==
  supabaseSession /\ part2State = "speaking" => part2SpeakingTimeLeft > 0

\* C17: when the cue card generation fails, the step that handles the failure
\* sets part2State to idle and the transcript to the one error line, sets no
\* timer, requests no session, no microphone and no further generation, and
\* leaves isRecording and this.session as they were.
C17_GenerationFailed ==
  [][GenReject =>
       /\ part2State' = "idle"
       /\ transcripts' = <<GenerationErrorLine>>
       /\ UNCHANGED <<part2TimerInterval, creditUsageInterval, leaked,
                      isRecording, session, mediaStream, cueCards,
                      part2Topic, part2CueCard>>
       /\ NewRequests("gen") = {} /\ NewRequests("connect") = {}
       /\ NewRequests("mic") = {}]_vars

\* A Part 2 whose generation failed: idle, the error line shown, nothing in
\* flight, no timer, no session, and no cue card was ever generated.
C17_Witness ==
  /\ currentPart = "part2" /\ part2State = "idle"
  /\ transcripts = <<GenerationErrorLine>>
  /\ tasks = EmptyBag
  /\ part2TimerInterval = NULL /\ session = NoSession /\ ~isRecording
  /\ cueCards = 0

InboundHandled ==
  \/ \E m \in Messages : OnMessage(m)
  \/ \E d \in decoding : DecodeDone(d)

\* C19 (as claimed): once the session has been closed, an inbound event of it
\* that is delivered or resumes afterwards changes neither the transcript nor
\* the set of active sources nor nextStartTime.
C19_ClosedSessionIgnored ==
  [][sessionClosed /\ InboundHandled =>
       UNCHANGED <<transcripts, sources, nextStartTime>>]_vars

\* C20 (as claimed): when live.connect rejects, the startRecording run that
\* awaited it returns there: the step that handles the rejection requests no
\* microphone, and leaves isRecording, the media stream and the credit
\* interval as they were.
C20_ConnectFailed ==
  [][ConnectReject =>
       /\ NewRequests("mic") = {}
       /\ UNCHANGED <<isRecording, mediaStream, creditUsageInterval>>]_vars

\* =====================================================================
\* Cleanup, feedback, PCM, timers and persistence
\* =====================================================================

Backoff == <<1000, 2000>>

\* C22: in one pass, generateContent is called at most three times for a
\* session; the waits made for it are 1 s after the first failed attempt and
\* 2 s after the second, one before every attempt but the first and none
\* after the last; the feedback of a session is stored only after a
\* successful attempt; and the pass goes through every session it found,
\* whatever failed, before it ends.
C22_FeedbackRetries ==
  /\ \A id \in FeedbackIds :
       /\ feedbackPass.calls[id] <= maxRetries
       /\ Len(feedbackPass.delays[id]) <= Len(Backoff)
       /\ feedbackPass.delays[id] = SubSeq(Backoff, 1, Len(feedbackPass.delays[id]))
       /\ Len(feedbackPass.delays[id]) =
            IF feedbackPass.phase = "waiting" /\ feedbackPass.sessionId = id
            THEN feedbackPass.calls[id]
            ELSE IF feedbackPass.calls[id] = 0 THEN 0 ELSE feedbackPass.calls[id] - 1
       /\ id \in feedbackPass.sessionFeedback =>
            id \in feedbackPass.withSpeech /\ feedbackPass.calls[id] >= 1
  /\ feedbackPass.phase = "done" =>
       /\ feedbackPass.sessionsToProcess = <<>>
       /\ \A id \in feedbackPass.withSpeech : id \in feedbackPass.visited

\* A pass has ended in which the first session failed three times, with the
\* waits 1 s and 2 s, and was passed over, and the second got its feedback.
C22_Witness ==
  /\ feedbackPass.phase = "done"
  /\ feedbackPass.calls[1] = maxRetries
  /\ feedbackPass.delays[1] = <<1000, 2000>>
  /\ 1 \notin feedbackPass.sessionFeedback
  /\ 2 \in feedbackPass.sessionFeedback

\* C23: every sample of a frame with values in [-1, 1] comes back from the
\* encoding to 16 bits and the decoding with an absolute error of at most
\* 1/32768, the samples -1 and 1 included.
C23_PcmRoundTrip ==
  pcm.phase = "decoded" =>
    /\ Len(pcm.decoded) = Len(pcm.samples)
    /\ \A i \in DOMAIN pcm.samples :
         Abs(pcm.decoded[i] - pcm.samples[i]) <= SubSteps

\* A frame holding the samples 1 and -1 has been encoded and decoded.
C23_Witness ==
  /\ pcm.phase = "decoded"
  /\ \E i, j \in DOMAIN pcm.samples :
       /\ pcm.samples[i] = Int16Scale * SubSteps
       /\ pcm.samples[j] = 0 - Int16Scale * SubSteps

\* C24 (as claimed): playback never starts in the past. Every buffer is
\* started at a time that is not earlier than the output clock at the moment
\* of its source.start call.
C24_NeverInThePast ==
  \A i \in 1..Len(playLog) : playLog[i].start >= playLog[i].at

\* C25 (as claimed): the countdown timers and the credit-poll timer are
\* cancelled on every way out of their owning state. A preparation interval
\* runs only while Part 2 is preparing, a speaking interval only while it is
\* speaking, a credit interval only while recording; so no callback fires
\* after the state was left.
C25_TimersCancelled ==
  /\ (part2TimerInterval = "prep" \/ leaked["prep"] > 0) => part2State = "preparing"
  /\ (part2TimerInterval = "speak" \/ leaked["speak"] > 0) => part2State = "speaking"
  /\ (creditUsageInterval \/ leaked["credit"] > 0) => isRecording

\* The application with timers that keep firing and a microphone prompt that
\* is answered; nothing is assumed of the remote service, whose responses
\* (session opened or refused, inbound messages) may never come.
SpecUnresponsive ==
  /\ Spec
  /\ WF_vars(\E n \in TickBatch(part2PreparationTimeLeft) : PrepTimerFire(n))
  /\ WF_vars(\E n \in TickBatch(part2SpeakingTimeLeft) : SpeakTimerFire(n))
  /\ WF_vars(MicResolve \/ MicReject)

\* C26 (as claimed): the speaking countdown does not depend on the remote
\* service. Once Part 2 is speaking, the countdown reaches zero or the user
\* leaves the speaking state, also when the session never opens and no
\* message ever arrives.
C26_SpeakingCountsDown ==
  (part2State = "speaking") ~>
    (part2SpeakingTimeLeft <= 0 \/ part2State # "speaking")

\* C27: a corrupt inbound audio chunk is dropped. The step in which its decode
\* fails leaves isRecording, the session, the active sources, the started
\* buffers and nextStartTime as they were and only ends that chunk's handler;
\* the decode of any other chunk that completes afterwards still starts its
\* buffer and adds it to the active sources.
C27_CorruptChunkDropped ==
  [][\A d \in decoding :
       /\ DecodeFail(d) =>
            /\ decoding' = decoding \ {d}
            /\ UNCHANGED <<nextStartTime, sources, playLog, stopLog,
                           sessionClosed, isRecording, session>>
       /\ (DecodeDone(d) /\ ~d.msg.interrupted) =>
            /\ Len(playLog') = Len(playLog) + 1
            /\ Last(playLog').id = d.id
            /\ d.id \in sources']_vars

\* The decode of the first chunk failed; the second chunk, delivered later,
\* was decoded, started and is among the active sources.
C27_Witness ==
  /\ msgCount = 2
  /\ decoding = {}
  /\ Len(playLog) = 1
  /\ playLog[1].id = 2
  /\ 2 \in sources
  /\ ~sessionClosed

\* C28 (as claimed): when getUserMedia fails after the live session was
\* opened, the start is aborted: once the step that handles the failure and
\* the stop it begins are through, isRecording is false, the session is closed
\* and no credit interval is running; and the aborted start does not move
\* Part 2 to finished.
C28_MicFailed ==
  [][MicReject =>
       /\ ~isRecording'
       /\ ~creditUsageInterval'
       /\ session' = NoSession \/ NewRequests("save") # {}
       /\ part2State # "finished" => part2State' # "finished"]_vars

\* The fragments of a message that carry text, in the order they are handled.
TextFragments(m) ==
  (IF m.input.text # <<>>
   THEN <<[speaker |-> "Candidate", text |-> m.input.text, final |-> m.input.final]>>
   ELSE <<>>)
  \o (IF m.output.text # <<>>
      THEN <<[speaker |-> "Examiner", text |-> m.output.text, final |-> m.output.final]>>
      ELSE <<>>)

\* C29: where lines carry isFinal, (a) a message with one fragment starts a
\* new line exactly when the transcript is empty, the last line is of the
\* other speaker or the last line is final, and else appends the text to the
\* last line; (b) a line that is final is never changed or removed by a later
\* message; (c) no line is inserted into the store twice, and what is inserted
\* is the text of a final line.
C29_FinalLines ==
  /\ [][\A m \in FinalMessages, ok \in BOOLEAN :
          (OnFinalityMessage(m, ok) /\ Len(TextFragments(m)) = 1) =>
            LET f == TextFragments(m)[1]
                n == Len(finalTr.lines)
            IN  IF n = 0 \/ finalTr.lines[n].speaker # f.speaker
                         \/ finalTr.lines[n].isFinal
                THEN finalTr'.lines =
                       Append(finalTr.lines, [speaker |-> f.speaker,
                                              text |-> f.text,
                                              isFinal |-> f.final])
                ELSE /\ Len(finalTr'.lines) = n
                     /\ finalTr'.lines[n].text = finalTr.lines[n].text \o f.text
                     /\ \A i \in 1..(n - 1) :
                          finalTr'.lines[i] = finalTr.lines[i]]_vars
  /\ [][\A i \in 1..Len(finalTr.lines) :
          finalTr.lines[i].isFinal =>
            /\ i <= Len(finalTr'.lines)
            /\ finalTr'.lines[i] = finalTr.lines[i]]_vars
  /\ [](\A i, j \in 1..Len(finalTr.inserts) :
          /\ finalTr.inserts[i].line = finalTr.inserts[j].line => i = j
          /\ finalTr.lines[finalTr.inserts[i].line].isFinal
          /\ finalTr.lines[finalTr.inserts[i].line].text = finalTr.inserts[i].text)

\* A line grown from two fragments became final and was inserted once; the
\* next fragment of the same speaker started a new line.
C29_Witness ==
  /\ Len(finalTr.lines) = 2
  /\ finalTr.lines[1] = [speaker |-> "Candidate", text |-> <<"a", "a">>,
                         isFinal |-> TRUE]
  /\ finalTr.lines[2].speaker = "Candidate"
  /\ Len(finalTr.inserts) = 1
  /\ finalTr.inserts[1].line = 1

\* The transcript of the current session id has been inserted into the store.
Persisted == currentSessionId \in DOMAIN inserted /\ inserted[currentSessionId] > 0

\* C30 (as claimed): a step that draws a session id draws a fresh one and
\* empties the transcript; no step inserts the transcript of a session id that
\* was inserted before; and once the transcript of the current session id is
\* in the store, an inbound message does not change the transcript in memory.
C30_SessionRecord ==
  /\ [][currentSessionId' # currentSessionId =>
          /\ currentSessionId' > currentSessionId
          /\ transcripts' = <<>>]_vars
  /\ [][\A k \in DOMAIN inserted :
          inserted'[k] > inserted[k] => inserted[k] = 0]_vars
  /\ [][\A m \in AppMessages :
          (Persisted /\ SessionMessage(m)) => transcripts' = transcripts]_vars

\* =====================================================================
\* Implicit invariants, frame conditions and sign-out
\* =====================================================================

\* The interval timers of the Part 2 countdowns that are running, whether or
\* not part2TimerInterval still refers to them.
PartTimers ==
  (IF part2TimerInterval # NULL THEN 1 ELSE 0) + leaked["prep"] + leaked["speak"]

\* C31 (as claimed): in every reachable state the countdown values are in
\* range, 0..60 for the preparation and 0..120 for the speaking countdown, and
\* at most one part timer is running.
C31_CountdownsInRange ==
  /\ part2PreparationTimeLeft \in 0..PrepSeconds
  /\ part2SpeakingTimeLeft \in 0..SpeakSeconds
  /\ PartTimers <= 1

\* C32 (as claimed): in every reachable state a Part 2 state other than idle
\* goes with Part 2 as the active part, so a cue card or a preparation
\* countdown that completes after another part was selected moves nothing.
C32_Part2StateOwned ==
  part2State # "idle" => currentPart = "part2"

\* C33 (as claimed): in every reachable state, isRecording implies that
\* this.session holds a live session, that the microphone stream is held and
\* that the capture node is wired, also while a stopRecording run is suspended
\* on the insert.
C33_RecordingHoldsResources ==
  isRecording =>
    /\ session # NoSession
    /\ mediaStream
    /\ scriptProcessorNode

\* The user is signed out and no awaited request is pending.
SignedOutAtRest == ~supabaseSession /\ signIns > 0 /\ tasks = EmptyBag

\* C34 (as claimed): after the sign-out cleanup has run and every pending
\* continuation has completed, no live session is open, isRecording is false,
\* the microphone is released and no credit interval is running.
C34_SignedOutAtRest ==
  SignedOutAtRest =>
    /\ session = NoSession /\ orphans = 0
    /\ ~isRecording
    /\ ~mediaStream /\ liveStreams = 0
    /\ ~creditUsageInterval /\ leaked["credit"] = 0

\* C35: when the remote side closes the connection or reports an error while
\* recording, the handlers only log. The step leaves isRecording, this.session,
\* the credit interval, the part timer, the microphone and the pending
\* requests as they were; while the recording then goes on, a capture callback
\* still sends its frame and a run of the credit interval with a known
\* balance still issues a deduction request.
C35_RemoteCloseOnlyLogs ==
  /\ [][RemoteClose =>
          UNCHANGED <<isRecording, session, creditUsageInterval,
                      part2TimerInterval, leaked, mediaStream,
                      scriptProcessorNode, tasks, part2State>>]_vars
  /\ [][(remoteClosed /\ isRecording /\ session # NoSession /\ CaptureCallback)
          => lastFrame' = "sent"]_vars
  /\ [][(remoteClosed /\ isRecording /\ userCredits # NoCredits /\ CreditTimerFire)
          => NewRequests("rpc") # {}]_vars

\* The connection was closed by the remote side; the recording goes on, a
\* frame was sent after the close and a deduction request is under way.
C35_Witness ==
  /\ remoteClosed
  /\ isRecording
  /\ creditUsageInterval
  /\ lastFrame = "sent"
  /\ \E t \in BagToSet(tasks) : t.kind = "rpc"

\* C36: stopRecording leaves the audio output scheduler as it is. The step in
\* which it closes the session stops no source, removes none from the active
\* sources and does not change nextStartTime or the pending decodes, so a
\* source that is playing goes on to its end.
C36_StopKeepsScheduler ==
  [][SessionClose =>
       /\ sources' = sources
       /\ stopLog' = stopLog
       /\ nextStartTime' = nextStartTime
       /\ playLog' = playLog
       /\ decoding' = decoding]_vars

\* The session was closed while a buffer was scheduled; the source is still
\* active after the close and nothing was stopped.
C36_Witness ==
  /\ sessionClosed
  /\ sources # {}
  /\ stopLog = {}
  /\ decoding = {}
  /\ nextStartTime > currentTime

\* The credit intervals that are running, whether or not creditUsageInterval
\* still refers to them.
CreditIntervals == (IF creditUsageInterval THEN 1 ELSE 0) + leaked["credit"]

\* C37 (as claimed): credit is charged at whole interval boundaries only. No
\* request has been issued before the first run of the interval callback; at
\* most one credit interval runs, and each run of its callback while recording
\* with a known balance issues one request, so that a recording of duration T
\* issues floor(T / 10 s) requests; and a callback that runs while isRecording
\* is false issues none.
C37_ChargedPerInterval ==
  /\ [](creditTicks = 0 => secondsRequested = 0)
  /\ [](CreditIntervals <= 1)
  /\ [][(isRecording /\ userCredits # NoCredits /\ CreditTimerFire) =>
          Cardinality(NewRequests("rpc")) = 1]_vars
  /\ [][(~isRecording /\ CreditTimerFire) => NewRequests("rpc") = {}]_vars

\* C38 (as claimed): a balance that is unknown during a recording stays
\* unknown for the whole recording.
C38_BalanceStaysNull ==
  [][(isRecording /\ isRecording' /\ userCredits = NoCredits)
       => userCredits' = NoCredits]_vars

\* C38 (amended): while the balance is unknown, a startRecording call is not
\* stopped by the credit gate (with a client it requests the session and does
\* not open the out-of-credits modal), and a run of the credit interval
\* callback issues no deduction request and leaves the balance unknown. The
\* balance becomes known only when a profile read or a deduction returns,
\* which can happen during the recording.
C38_UnknownBalance ==
  /\ [][(userCredits = NoCredits /\ ~isRecording /\ client /\ CallsStartRecording)
          => /\ NewRequests("connect") # {}
             /\ isOutOfCreditsModalOpen' = isOutOfCreditsModalOpen]_vars
  /\ [][(userCredits = NoCredits /\ CreditTimerFire)
          => /\ NewRequests("rpc") = {}
             /\ userCredits' = NoCredits
             /\ secondsRequested' = secondsRequested]_vars
  /\ [][(userCredits = NoCredits /\ userCredits' # NoCredits)
          => \/ \E credits \in ProfileBalances : ProfileFetched(TRUE, credits)
             \/ RpcReturn(TRUE)]_vars

\* A recording with an unknown balance: the credit interval callback has run
\* and nothing was requested.
C38_Witness ==
  /\ isRecording
  /\ userCredits = NoCredits
  /\ creditTicks >= 1
  /\ secondsRequested = 0
  /\ \A t \in BagToSet(tasks) : t.kind # "rpc"

\* C39: the carried Part 2 topic changes only in a step that begins in Part 2
\* with a generated topic, and then to that topic; once it is set, no step
\* clears it - no part selection, no stop and no sign-out.
C39_CarriedTopicKept ==
  /\ [][part2TopicForPart3' # part2TopicForPart3 =>
          /\ currentPart = "part2"
          /\ part2Topic # NULL
          /\ part2TopicForPart3' = part2Topic]_vars
  /\ [][part2TopicForPart3 # NULL => part2TopicForPart3' # NULL]_vars

\* The topic carried from a finished Part 2 is still there after the user has
\* signed out.
C39_Witness ==
  /\ ~supabaseSession
  /\ part2TopicForPart3 \in Topics
  /\ client = FALSE

\* C40 (as claimed): for every interleaving of the runs of
\* processMissingFeedback, the feedback table holds at most one row per
\* session id, and feedback is generated only for a session that has no
\* stored row.
C40_OneFeedbackPerSession ==
  /\ \A i \in PassIds : feedbackRuns.stored[i] <= 1
  /\ feedbackRuns.late = {}

====
